---- MODULE Spec2Model ----
(***************************************************************************)
(* A state-machine model of the NodalKnot orchestrator                     *)
(* (src/src/nodal_knot/NodalKnot.py).                                      *)
(*                                                                         *)
(* One NodalKnot instance is modelled.  Its attributes are the variables;  *)
(* every public method is an operator from the instance (a record of its   *)
(* attributes) and the call's arguments to an outcome: the instance after  *)
(* the call, the returned value or the raised exception, and the set of    *)
(* routines that ran.  An action commits the outcome of one public call.   *)
(*                                                                         *)
(* Real numbers are exact rationals [num, den] in lowest terms.  Optional  *)
(* values are None == <<>> or Some(x) == <<x>>.  A 3-D array of shape      *)
(* (n, n, n) is a function on Cells(n), indices counted from 0.            *)
(***************************************************************************)
EXTENDS Integers, Sequences, FiniteSets, TLC

VARIABLES
    k_to_zw_func, zw_to_c_func,          \* the caller-supplied field functions
    kx_min, kx_max, ky_min, ky_max, kz_min, kz_max, pts_per_dim,
    val, kx_grid, ky_grid, kz_grid,      \* the Field Sample
    binarized_val, selected_points, skeleton, skeleton_points, graph,
    last                                 \* history: the last public call and its outcome

fields == <<k_to_zw_func, zw_to_c_func, kx_min, kx_max, ky_min, ky_max,
            kz_min, kz_max, pts_per_dim, val, kx_grid, ky_grid, kz_grid,
            binarized_val, selected_points, skeleton, skeleton_points, graph>>

vars == <<fields, last>>

(***************************************************************************)
(* Bounds of the model.                                                    *)
(***************************************************************************)
MaxPts == 3          \* pts_per_dim ranges over 1..MaxPts
MaxThickness == 12   \* thickness ranges over -1..MaxThickness in SpecBinarize, SpecSurface
MaxEpsilon == 3      \* epsilon ranges over None, -1..MaxEpsilon in SpecBinarize, SpecSurface
MaxNodes == 4        \* graphs handed to print_graph_properties have nodes in 1..MaxNodes

(***************************************************************************)
(* Optional values.                                                        *)
(***************************************************************************)
None == <<>>
Some(x) == <<x>>
IsNone(o) == Len(o) = 0
Get(o) == o[1]

(***************************************************************************)
(* Exact rational arithmetic (the model of Python floats).                 *)
(***************************************************************************)
AbsInt(i) == IF i < 0 THEN -i ELSE i

RECURSIVE Gcd(_, _)
Gcd(a, b) == IF b = 0 THEN a ELSE Gcd(b, a % b)

Rat(n, d) ==
    LET g == Gcd(AbsInt(n), AbsInt(d))
        s == IF d < 0 THEN -1 ELSE 1
    IN  [num |-> (s * n) \div g, den |-> (s * d) \div g]

RatInt(i) == [num |-> i, den |-> 1]
RatAdd(a, b) == Rat(a.num * b.den + b.num * a.den, a.den * b.den)
RatSub(a, b) == Rat(a.num * b.den - b.num * a.den, a.den * b.den)
RatMul(a, b) == Rat(a.num * b.num, a.den * b.den)
RatAbs(a) == [num |-> AbsInt(a.num), den |-> a.den]
RatLt(a, b) == a.num * b.den < b.num * a.den
RatLeq(a, b) == a.num * b.den <= b.num * a.den

(***************************************************************************)
(* Arrays.                                                                 *)
(***************************************************************************)
Cells(n) == (0 .. n - 1) \X (0 .. n - 1) \X (0 .. n - 1)

\* All cells of an (n, n, n) array in C (row-major) traversal order.
CellSeq(n) ==
    [m \in 1 .. n * n * n |->
        <<(m - 1) \div (n * n), ((m - 1) \div n) % n, (m - 1) % n>>]

\* np.linspace(a, b, n): n values from a, step (b - a) / (n - 1); [a] when n = 1.
linspace(a, b, n) ==
    [i \in 0 .. n - 1 |->
        IF n = 1 THEN RatInt(a)
        ELSE RatAdd(RatInt(a), RatMul(RatInt(i), Rat(b - a, n - 1)))]

\* arr.shape
Shape(arr) ==
    <<Cardinality({c[1] : c \in DOMAIN arr}),
      Cardinality({c[2] : c \in DOMAIN arr}),
      Cardinality({c[3] : c \in DOMAIN arr})>>

\* np.where(mask) for a cubic mask: the cells holding a non-zero value, in
\* traversal order.
np_where(mask) == SelectSeq(CellSeq(Shape(mask)[1]), LAMBDA c : mask[c] # 0)

(***************************************************************************)
(* The caller-supplied field functions (constructor arguments): a small    *)
(* family of vectorized real-valued maps, applied cell by cell.            *)
(***************************************************************************)
KToZwFuncs == {"planar", "sheared"}
ZwToCFuncs == {"sum", "product"}

\* (kx, ky, kz) -> (z, w)
k_to_zw(f, kx, ky, kz) ==
    IF f = "planar" THEN <<kx, ky>>
    ELSE <<RatAdd(kx, kz), RatSub(ky, kz)>>

\* (z, w) -> c
zw_to_c(f, zw) ==
    IF f = "sum" THEN RatAdd(zw[1], zw[2])
    ELSE RatMul(zw[1], zw[2])

(***************************************************************************)
(* Outcomes of a call.                                                     *)
(***************************************************************************)
NoExc == "none"
Ok(s, ret, ran) == [self |-> s, ret |-> Some(ret), exc |-> NoExc, ran |-> ran]
Raise(s, exc, ran) == [self |-> s, ret |-> None, exc |-> exc, ran |-> ran]

\* Bind(x, F) is F(x) with x evaluated once: the value of a local variable.
Bind(x, F(_)) == CHOOSE y \in {F(v) : v \in {x}} : TRUE

\* The instance as a record of its attributes.
Self ==
    [k_to_zw_func |-> k_to_zw_func, zw_to_c_func |-> zw_to_c_func,
     kx_min |-> kx_min, kx_max |-> kx_max,
     ky_min |-> ky_min, ky_max |-> ky_max,
     kz_min |-> kz_min, kz_max |-> kz_max,
     pts_per_dim |-> pts_per_dim,
     val |-> val, kx_grid |-> kx_grid, ky_grid |-> ky_grid, kz_grid |-> kz_grid,
     binarized_val |-> binarized_val, selected_points |-> selected_points,
     skeleton |-> skeleton, skeleton_points |-> skeleton_points, graph |-> graph]

(***************************************************************************)
(* NodalKnot.generate_region.  The method takes no parameter besides self, *)
(* so a call that forwards a non-empty **kwargs raises TypeError before    *)
(* its body runs.  kwargs is the set of forwarded keyword names.           *)
(***************************************************************************)
\* Variant: the cached Field Sample is dropped before the keywords are
\* looked at.
generate_region_resets_first(self, kwargs) ==
    IF kwargs # {}
    THEN Raise([self EXCEPT !.val = None, !.kx_grid = None,
                            !.ky_grid = None, !.kz_grid = None],
               "TypeError", {})
    ELSE
    LET n == self.pts_per_dim
        kx_vals == linspace(self.kx_min, self.kx_max, n)
        ky_vals == linspace(self.ky_min, self.ky_max, n)
        kz_vals == linspace(self.kz_min, self.kz_max, n)
        kxg == [c \in Cells(n) |-> kx_vals[c[1]]]
        kyg == [c \in Cells(n) |-> ky_vals[c[2]]]
        kzg == [c \in Cells(n) |-> kz_vals[c[3]]]
        v == [c \in Cells(n) |->
                zw_to_c(self.zw_to_c_func,
                        k_to_zw(self.k_to_zw_func, kxg[c], kyg[c], kzg[c]))]
    IN  Ok([self EXCEPT !.val = Some(v), !.kx_grid = Some(kxg),
                        !.ky_grid = Some(kyg), !.kz_grid = Some(kzg)],
           <<v, kxg, kyg, kzg>>, {"generate_region"})

\* Variant: np.meshgrid with its default 'xy' indexing, where the first array
\* axis follows the second coordinate.
generate_region_xy(self, kwargs) ==
    IF kwargs # {} THEN Raise(self, "TypeError", {})
    ELSE
    LET n == self.pts_per_dim
        kx_vals == linspace(self.kx_min, self.kx_max, n)
        ky_vals == linspace(self.ky_min, self.ky_max, n)
        kz_vals == linspace(self.kz_min, self.kz_max, n)
        kxg == [c \in Cells(n) |-> kx_vals[c[2]]]
        kyg == [c \in Cells(n) |-> ky_vals[c[1]]]
        kzg == [c \in Cells(n) |-> kz_vals[c[3]]]
        v == [c \in Cells(n) |->
                zw_to_c(self.zw_to_c_func,
                        k_to_zw(self.k_to_zw_func, kxg[c], kyg[c], kzg[c]))]
    IN  Ok([self EXCEPT !.val = Some(v), !.kx_grid = Some(kxg),
                        !.ky_grid = Some(kyg), !.kz_grid = Some(kzg)],
           <<v, kxg, kyg, kzg>>, {"generate_region"})

generate_region(self, kwargs) ==
    IF kwargs # {} THEN Raise(self, "TypeError", {})
    ELSE
    LET n == self.pts_per_dim
        kx_vals == linspace(self.kx_min, self.kx_max, n)
        ky_vals == linspace(self.ky_min, self.ky_max, n)
        kz_vals == linspace(self.kz_min, self.kz_max, n)
        \* np.meshgrid(..., indexing='ij')
        kxg == [c \in Cells(n) |-> kx_vals[c[1]]]
        kyg == [c \in Cells(n) |-> ky_vals[c[2]]]
        kzg == [c \in Cells(n) |-> kz_vals[c[3]]]
        v == [c \in Cells(n) |->
                zw_to_c(self.zw_to_c_func,
                        k_to_zw(self.k_to_zw_func, kxg[c], kyg[c], kzg[c]))]
    IN  Ok([self EXCEPT !.val = Some(v), !.kx_grid = Some(kxg),
                        !.ky_grid = Some(kyg), !.kz_grid = Some(kzg)],
           <<v, kxg, kyg, kzg>>, {"generate_region"})

\* Variant of the guard: the Field Sample is generated anew on every call.
ensure_region_always(self, kwargs) == generate_region(self, kwargs)

\* A variant of the guard with no lazy generation: a missing Field Sample is
\* an error (np.abs(None) raises TypeError).
ensure_region_not_lazy(self, kwargs) ==
    IF kwargs # {} THEN generate_region(self, kwargs)
    ELSE IF IsNone(self.val) THEN Raise(self, "TypeError", {})
    ELSE Ok(self, None, {})

\* The guard shared by the stage methods:
\*   if self.val is None or kwargs: self.generate_region(**kwargs)
ensure_region(self, kwargs) ==
    IF IsNone(self.val) \/ kwargs # {}
    THEN generate_region(self, kwargs)
    ELSE Ok(self, None, {})

(***************************************************************************)
(* NodalKnot.binarize_region.  thickness is a number, epsilon an optional  *)
(* number.                                                                 *)
(***************************************************************************)
ClampNumerator == 10

\* Variant: solid mode without the clamp of thickness.
binarize_condition_unclamped(self, thickness, epsilon) ==
    LET v == Get(self.val)
        norm == [c \in DOMAIN v |-> RatAbs(v[c])]
    IN  IF ~IsNone(epsilon) /\ Get(epsilon) > 0
        THEN [c \in DOMAIN v |->
                IF RatLt(RatAbs(RatSub(norm[c], RatInt(thickness))),
                         RatInt(Get(epsilon)))
                THEN 1 ELSE 0]
        ELSE [c \in DOMAIN v |->
                IF RatLeq(norm[c], RatInt(thickness)) THEN 1 ELSE 0]

\* Variant: the clamp replaces only a thickness that is not positive.
binarize_condition_clamp_nonpositive(self, thickness, epsilon) ==
    LET v == Get(self.val)
        norm == [c \in DOMAIN v |-> RatAbs(v[c])]
    IN  IF ~IsNone(epsilon) /\ Get(epsilon) > 0
        THEN [c \in DOMAIN v |->
                IF RatLt(RatAbs(RatSub(norm[c], RatInt(thickness))),
                         RatInt(Get(epsilon)))
                THEN 1 ELSE 0]
        ELSE LET floor == Rat(ClampNumerator, self.pts_per_dim)
                 t == IF thickness <= 0 THEN floor ELSE RatInt(thickness)
             IN  [c \in DOMAIN v |-> IF RatLeq(norm[c], t) THEN 1 ELSE 0]

\* Lines 130-137: norm = np.abs(self.val) and the condition np.where receives,
\* an array of booleans (True is 1, False is 0, as in numpy).
binarize_condition(self, thickness, epsilon) ==
    LET v == Get(self.val)
        norm == [c \in DOMAIN v |-> RatAbs(v[c])]
    IN  IF ~IsNone(epsilon) /\ Get(epsilon) > 0
        THEN [c \in DOMAIN v |->
                IF RatLt(RatAbs(RatSub(norm[c], RatInt(thickness))),
                         RatInt(Get(epsilon)))
                THEN 1 ELSE 0]
        ELSE LET floor == Rat(ClampNumerator, self.pts_per_dim)
                 t == IF RatLt(RatInt(thickness), floor)
                      THEN floor ELSE RatInt(thickness)
             IN  [c \in DOMAIN v |-> IF RatLeq(norm[c], t) THEN 1 ELSE 0]

binarize_region(self, thickness, epsilon, kwargs) ==
    Bind(ensure_region(self, kwargs), LAMBDA g :
        IF g.exc # NoExc THEN g
        ELSE
        \* binarized_val = np.where(cond, 1, 0)
        Bind([c \in DOMAIN Get(g.self.val) |->
                 IF binarize_condition(g.self, thickness, epsilon)[c] # 0
                 THEN 1 ELSE 0],
             LAMBDA b :
                Ok([g.self EXCEPT !.binarized_val = Some(b)], b,
                   g.ran \cup {"binarize_region"})))

(***************************************************************************)
(* NodalKnot.knot_surface_points.  idx is an optional mask array.  The     *)
(* local name idx is rebound to the index tuple np.where returns before    *)
(* the final test "if idx is None", which therefore reads the tuple.       *)
(***************************************************************************)
\* Variant: the method's solid mode without the clamp of thickness.
surface_condition_unclamped(self, thickness, epsilon) ==
    LET v == Get(self.val)
        norm == [c \in DOMAIN v |-> RatAbs(v[c])]
    IN  IF ~IsNone(epsilon) /\ Get(epsilon) > 0
        THEN [c \in DOMAIN v |->
                IF RatLt(RatAbs(RatSub(norm[c], RatInt(thickness))),
                         RatInt(Get(epsilon)))
                THEN 1 ELSE 0]
        ELSE [c \in DOMAIN v |->
                IF RatLeq(norm[c], RatInt(thickness)) THEN 1 ELSE 0]

\* Lines 176-183: the method's own copy of the thresholding condition.
surface_condition(self, thickness, epsilon) ==
    LET v == Get(self.val)
        norm == [c \in DOMAIN v |-> RatAbs(v[c])]
    IN  IF ~IsNone(epsilon) /\ Get(epsilon) > 0
        THEN [c \in DOMAIN v |->
                IF RatLt(RatAbs(RatSub(norm[c], RatInt(thickness))),
                         RatInt(Get(epsilon)))
                THEN 1 ELSE 0]
        ELSE LET floor == Rat(ClampNumerator, self.pts_per_dim)
                 t == IF RatLt(RatInt(thickness), floor)
                      THEN floor ELSE RatInt(thickness)
             IN  [c \in DOMAIN v |-> IF RatLeq(norm[c], t) THEN 1 ELSE 0]

\* Variant: the first two coordinates of each triple exchanged.
grid_points_swapped(self, where) ==
    [m \in 1 .. Len(where) |->
        <<Get(self.ky_grid)[where[m]],
          Get(self.kx_grid)[where[m]],
          Get(self.kz_grid)[where[m]]>>]

\* Lines 189-191: the coordinate triples of the selected cells.
grid_points(self, where) ==
    [m \in 1 .. Len(where) |->
        <<Get(self.kx_grid)[where[m]],
          Get(self.ky_grid)[where[m]],
          Get(self.kz_grid)[where[m]]>>]

\* Variant: the derived selection is also stored as the binarizer's cache.
knot_surface_points_caching(self, thickness, epsilon, idx, kwargs) ==
    Bind(ensure_region(self, kwargs), LAMBDA g :
        IF g.exc # NoExc THEN g
        ELSE IF ~IsNone(idx) /\ Shape(Get(idx)) # Shape(Get(g.self.val))
        THEN Raise(g.self, "ValueError", g.ran \cup {"knot_surface_points"})
        ELSE
        Bind(IF IsNone(idx)
             THEN Some(np_where(surface_condition(g.self, thickness, epsilon)))
             ELSE Some(np_where(Get(idx))),
             LAMBDA idx2 :
        Bind(grid_points(g.self, Get(idx2)), LAMBDA pts :
            Ok(IF IsNone(idx)
               THEN [g.self EXCEPT !.binarized_val =
                        Some(surface_condition(g.self, thickness, epsilon))]
               ELSE g.self,
               pts, g.ran \cup {"knot_surface_points"}))))

\* Variant: the final test reads the idx argument, so that a selection
\* derived from the thresholds is stored.
knot_surface_points_stores_selection(self, thickness, epsilon, idx, kwargs) ==
    Bind(ensure_region(self, kwargs), LAMBDA g :
        IF g.exc # NoExc THEN g
        ELSE IF ~IsNone(idx) /\ Shape(Get(idx)) # Shape(Get(g.self.val))
        THEN Raise(g.self, "ValueError", g.ran \cup {"knot_surface_points"})
        ELSE
        Bind(IF IsNone(idx)
             THEN Some(np_where(surface_condition(g.self, thickness, epsilon)))
             ELSE Some(np_where(Get(idx))),
             LAMBDA idx2 :
        Bind(grid_points(g.self, Get(idx2)), LAMBDA pts :
            Ok(IF IsNone(idx)
               THEN [g.self EXCEPT !.selected_points = Some(pts)]
               ELSE g.self,
               pts, g.ran \cup {"knot_surface_points"}))))

knot_surface_points(self, thickness, epsilon, idx, kwargs) ==
    Bind(ensure_region(self, kwargs), LAMBDA g :
        IF g.exc # NoExc THEN g
        ELSE IF ~IsNone(idx) /\ Shape(Get(idx)) # Shape(Get(g.self.val))
        THEN Raise(g.self, "ValueError", g.ran \cup {"knot_surface_points"})
        ELSE
        \* idx2: the local name idx after its rebinding to np.where's result
        Bind(IF IsNone(idx)
             THEN Some(np_where(surface_condition(g.self, thickness, epsilon)))
             ELSE Some(np_where(Get(idx))),
             LAMBDA idx2 :
        Bind(grid_points(g.self, Get(idx2)), LAMBDA pts :
            \* if idx is None: self.selected_points = pts
            Ok(IF IsNone(idx2)
               THEN [g.self EXCEPT !.selected_points = Some(pts)]
               ELSE g.self,
               pts, g.ran \cup {"knot_surface_points"}))))

(***************************************************************************)
(* The external thinning primitive, morph.skeletonize(volume, 'lee'),      *)
(* modelled by its contract: a deterministic map to an array of the same   *)
(* shape whose true cells are true cells of the input.  Here a true cell   *)
(* survives unless the next cell along the first or the second axis is     *)
(* true, so that a solid block thins to a curve along the third axis.      *)
(***************************************************************************)
skeletonize(b) ==
    LET on(c) == c \in DOMAIN b /\ b[c] # 0
    IN  [c \in DOMAIN b |->
            IF on(c) /\ ~on(<<c[1] + 1, c[2], c[3]>>)
                     /\ ~on(<<c[1], c[2] + 1, c[3]>>)
            THEN 1 ELSE 0]

(***************************************************************************)
(* NodalKnot.knot_skeleton and NodalKnot.knot_skeleton_points.             *)
(***************************************************************************)
\* Variant: a cached binarized_val is reused, the binarizer run only when
\* none is cached or keywords are forwarded.
knot_skeleton_lazy_binarize(self, thickness, epsilon, kwargs) ==
    Bind(IF IsNone(self.binarized_val) \/ kwargs # {}
         THEN binarize_region(self, thickness, epsilon, kwargs)
         ELSE Ok(self, Get(self.binarized_val), {}),
         LAMBDA r :
        IF r.exc # NoExc THEN r
        ELSE
        Bind(skeletonize(Get(r.self.binarized_val)), LAMBDA sk :
            Ok([r.self EXCEPT !.skeleton = Some(sk)], sk,
               r.ran \cup {"knot_skeleton", "skeletonize"})))

\* Variant: the volume is binarized for the thinning only, the binarizer's
\* cache left as it was.
knot_skeleton_local_binarize(self, thickness, epsilon, kwargs) ==
    Bind(binarize_region(self, thickness, epsilon, kwargs), LAMBDA r :
        IF r.exc # NoExc THEN r
        ELSE
        Bind(skeletonize(Get(r.self.binarized_val)), LAMBDA sk :
            Ok([r.self EXCEPT !.skeleton = Some(sk),
                              !.binarized_val = self.binarized_val], sk,
               r.ran \cup {"knot_skeleton", "skeletonize"})))

knot_skeleton(self, thickness, epsilon, kwargs) ==
    Bind(binarize_region(self, thickness, epsilon, kwargs), LAMBDA r :
        IF r.exc # NoExc THEN r
        ELSE
        Bind(skeletonize(Get(r.self.binarized_val)), LAMBDA sk :
            Ok([r.self EXCEPT !.skeleton = Some(sk)], sk,
               r.ran \cup {"knot_skeleton", "skeletonize"})))

knot_skeleton_points(self, thickness, epsilon, kwargs) ==
    Bind(knot_skeleton(self, thickness, epsilon, kwargs), LAMBDA r :
        IF r.exc # NoExc THEN r
        ELSE
        \* points = self.knot_surface_points(idx=self.skeleton)
        Bind(knot_surface_points(r.self, 0, None, r.self.skeleton, {}),
             LAMBDA p :
                IF p.exc # NoExc
                THEN [p EXCEPT !.ran = r.ran \cup p.ran \cup {"knot_skeleton_points"}]
                ELSE Ok([p.self EXCEPT !.skeleton_points = p.ret], Get(p.ret),
                        r.ran \cup p.ran \cup {"knot_skeleton_points"})))

(***************************************************************************)
(* The skeleton-to-graph converter and the leaf pruning, which live in     *)
(* modules of the package outside NodalKnot.py.  The converter builds the  *)
(* lattice graph of the true voxels under 26-neighbourhood adjacency; the  *)
(* pruning removes nodes of degree 1 until none is left.                   *)
(***************************************************************************)
Adjacent(a, b) ==
    /\ a # b
    /\ AbsInt(a[1] - b[1]) <= 1
    /\ AbsInt(a[2] - b[2]) <= 1
    /\ AbsInt(a[3] - b[3]) <= 1

skeleton2graph(skeleton_3d) ==
    Bind({c \in DOMAIN skeleton_3d : skeleton_3d[c] # 0}, LAMBDA nodes :
        [nodes |-> nodes,
         edges |-> {e \in {{a, b} : a \in nodes, b \in nodes} :
                      \E a \in e, b \in e : Adjacent(a, b)}])

Degree(G, v) == Cardinality({e \in G.edges : v \in e})

RECURSIVE remove_leaf_nodes(_)
remove_leaf_nodes(G) ==
    Bind(G, LAMBDA g :
    Bind({v \in g.nodes : Degree(g, v) = 1}, LAMBDA leaves :
        IF leaves = {} THEN g
        ELSE remove_leaf_nodes(
                [nodes |-> g.nodes \ leaves,
                 edges |-> {e \in g.edges : e \cap leaves = {}}])))

(***************************************************************************)
(* NodalKnot.skeleton_graph.  knot_skeleton_kwargs is a record: the        *)
(* optional keywords thickness and epsilon, which knot_skeleton binds to   *)
(* its own parameters, and rest, the names of all other keywords, which    *)
(* knot_skeleton forwards on.                                              *)
(***************************************************************************)
NoKnotSkeletonKwargs == [thickness |-> None, epsilon |-> None, rest |-> {}]

\* Variant: a caller-supplied volume is also stored as the cached skeleton.
skeleton_graph_caches_volume(self, skeleton_3d, clean, knot_skeleton_kwargs) ==
    Bind(IF IsNone(skeleton_3d)
            /\ (IsNone(self.skeleton)
                \/ knot_skeleton_kwargs # NoKnotSkeletonKwargs)
         THEN knot_skeleton(self,
                 IF IsNone(knot_skeleton_kwargs.thickness) THEN 0
                 ELSE Get(knot_skeleton_kwargs.thickness),
                 IF IsNone(knot_skeleton_kwargs.epsilon) THEN None
                 ELSE Get(knot_skeleton_kwargs.epsilon),
                 knot_skeleton_kwargs.rest)
         ELSE Ok(IF IsNone(skeleton_3d) THEN self
                 ELSE [self EXCEPT !.skeleton = skeleton_3d], None, {}),
         LAMBDA r :
        IF r.exc # NoExc THEN r
        ELSE
        Bind(skeleton2graph(Get(r.self.skeleton)), LAMBDA G0 :
        Bind(IF clean THEN remove_leaf_nodes(G0) ELSE G0, LAMBDA G :
            Ok([r.self EXCEPT !.graph = Some(G)], G,
               r.ran \cup {"skeleton_graph", "skeleton2graph"}
                     \cup (IF clean THEN {"remove_leaf_nodes"} ELSE {})))))

\* Variant: the converter's output is cached before the leaf pruning, the
\* pruned graph only returned.
skeleton_graph_caches_unpruned(self, skeleton_3d, clean, knot_skeleton_kwargs) ==
    Bind(IF IsNone(skeleton_3d)
            /\ (IsNone(self.skeleton)
                \/ knot_skeleton_kwargs # NoKnotSkeletonKwargs)
         THEN knot_skeleton(self,
                 IF IsNone(knot_skeleton_kwargs.thickness) THEN 0
                 ELSE Get(knot_skeleton_kwargs.thickness),
                 IF IsNone(knot_skeleton_kwargs.epsilon) THEN None
                 ELSE Get(knot_skeleton_kwargs.epsilon),
                 knot_skeleton_kwargs.rest)
         ELSE Ok(self, None, {}),
         LAMBDA r :
        IF r.exc # NoExc THEN r
        ELSE
        Bind(skeleton2graph(IF IsNone(skeleton_3d) THEN Get(r.self.skeleton)
                            ELSE Get(skeleton_3d)),
             LAMBDA G0 :
        Bind(IF clean THEN remove_leaf_nodes(G0) ELSE G0, LAMBDA G :
            Ok([r.self EXCEPT !.graph = Some(G0)], G,
               r.ran \cup {"skeleton_graph", "skeleton2graph"}
                     \cup (IF clean THEN {"remove_leaf_nodes"} ELSE {})))))

skeleton_graph(self, skeleton_3d, clean, knot_skeleton_kwargs) ==
    Bind(IF IsNone(skeleton_3d)
            /\ (IsNone(self.skeleton)
                \/ knot_skeleton_kwargs # NoKnotSkeletonKwargs)
         THEN knot_skeleton(self,
                 IF IsNone(knot_skeleton_kwargs.thickness) THEN 0
                 ELSE Get(knot_skeleton_kwargs.thickness),
                 IF IsNone(knot_skeleton_kwargs.epsilon) THEN None
                 ELSE Get(knot_skeleton_kwargs.epsilon),
                 knot_skeleton_kwargs.rest)
         ELSE Ok(self, None, {}),
         LAMBDA r :
        IF r.exc # NoExc THEN r
        ELSE
        Bind(skeleton2graph(IF IsNone(skeleton_3d) THEN Get(r.self.skeleton)
                            ELSE Get(skeleton_3d)),
             LAMBDA G0 :
        Bind(IF clean THEN remove_leaf_nodes(G0) ELSE G0, LAMBDA G :
            Ok([r.self EXCEPT !.graph = Some(G)], G,
               r.ran \cup {"skeleton_graph", "skeleton2graph"}
                     \cup (IF clean THEN {"remove_leaf_nodes"} ELSE {})))))

(***************************************************************************)
(* NodalKnot.print_graph_properties, a static method.  Its argument is a   *)
(* graph [nodes, edges]; what it prints is the sequence of its lines, each *)
(* a record of the line's text and the numbers printed in it (a fraction   *)
(* as numerator and denominator).  The networkx routines it calls are      *)
(* modelled by their documented results.                                   *)
(***************************************************************************)
Line(text, numbers) == [text |-> text, numbers |-> numbers]

\* The breadth-first levels from the frontier: nodes at distance 0, 1, ...
RECURSIVE bfs_levels(_, _, _)
bfs_levels(G, seen, frontier) ==
    IF frontier = {} THEN <<>>
    ELSE Bind({u \in G.nodes \ seen : \E v \in frontier : {u, v} \in G.edges},
              LAMBDA next :
                 <<frontier>> \o bfs_levels(G, seen \cup next, next))

\* nx.node_connected_component(G, v)
node_connected_component(G, v) ==
    Bind(bfs_levels(G, {v}, {v}), LAMBDA levels :
        UNION {levels[i] : i \in 1 .. Len(levels)})

\* nx.connected_components(G)
connected_components(G) == {node_connected_component(G, v) : v \in G.nodes}

\* nx.eccentricity(G, v), and the sum of the distances from v, on a
\* connected graph.
eccentricity(G, v) == Len(bfs_levels(G, {v}, {v})) - 1

RECURSIVE SumSeq(_)
SumSeq(q) == IF q = <<>> THEN 0 ELSE Head(q) + SumSeq(Tail(q))

distance_sum(G, v) ==
    Bind(bfs_levels(G, {v}, {v}), LAMBDA levels :
        SumSeq([i \in 1 .. Len(levels) |-> (i - 1) * Cardinality(levels[i])]))

RECURSIVE SumOver(_, _, _)
SumOver(G, todo, acc) ==
    IF todo = {} THEN acc
    ELSE Bind(CHOOSE v \in todo : TRUE, LAMBDA v :
            SumOver(G, todo \ {v}, acc + distance_sum(G, v)))

\* nx.diameter(G): the largest eccentricity.
diameter(G) ==
    CHOOSE d \in {eccentricity(G, v) : v \in G.nodes} :
        \A v \in G.nodes : eccentricity(G, v) <= d

\* nx.average_shortest_path_length(G): 0 for a single node.
average_shortest_path_length(G) ==
    Bind(Cardinality(G.nodes), LAMBDA n :
        IF n = 1 THEN Rat(0, 1) ELSE Rat(SumOver(G, G.nodes, 0), n * (n - 1)))

\* sorted(components, key=len, reverse=True), as the sequence of the sizes.
RECURSIVE sorted_sizes(_)
sorted_sizes(comps) ==
    IF comps = {} THEN <<>>
    ELSE Bind(CHOOSE c \in comps :
                 \A d \in comps : Cardinality(d) <= Cardinality(c),
              LAMBDA c : <<Cardinality(c)>> \o sorted_sizes(comps \ {c}))

\* Lines 349-353: the lines of the degree histogram, one per degree present.
degree_lines(G) ==
    Bind([d \in 0 .. Cardinality(G.nodes) |->
             Cardinality({v \in G.nodes : Degree(G, v) = d})],
         LAMBDA hist :
            <<Line("Degree distribution (degree: frequency):", <<>>)>>
            \o [i \in 1 .. Cardinality({d \in DOMAIN hist : hist[d] > 0}) |->
                   Bind(CHOOSE d \in DOMAIN hist :
                           /\ hist[d] > 0
                           /\ Cardinality({e \in DOMAIN hist :
                                             hist[e] > 0 /\ e < d}) = i - 1,
                        LAMBDA d : Line("degree", <<d, hist[d]>>))])

\* Variant: the path metrics are reported without the connectivity test,
\* over the nodes reachable from each node (0 on a graph with no node).
print_graph_properties_unchecked(G, histogram_raises) ==
    Bind(<<Line("Number of nodes:", <<Cardinality(G.nodes)>>),
           Line("Number of edges:", <<Cardinality(G.edges)>>)>>
         \o degree_lines(G),
         LAMBDA head :
            [stdout |-> head \o
                <<Line("Graph is connected.", <<>>),
                  Line("Diameter:",
                       <<IF G.nodes = {} THEN 0 ELSE diameter(G)>>),
                  Line("Average shortest path length:",
                       IF Cardinality(G.nodes) <= 1 THEN <<0, 1>>
                       ELSE <<average_shortest_path_length(G).num,
                              average_shortest_path_length(G).den>>)>>,
             exc |-> NoExc,
             ran |-> {"degree_histogram", "diameter",
                      "average_shortest_path_length"}])

\* histogram_raises: whether the installed nx.degree_histogram raises
\* ValueError on a graph with no node (max of an empty sequence) or returns
\* an empty list; nx.is_connected raises NetworkXPointlessConcept on it.
print_graph_properties(G, histogram_raises) ==
    Bind(<<Line("Number of nodes:", <<Cardinality(G.nodes)>>),
           Line("Number of edges:", <<Cardinality(G.edges)>>)>>,
         LAMBDA counts :
    IF G.nodes = {} /\ histogram_raises
    THEN [stdout |-> counts, exc |-> "ValueError", ran |-> {"degree_histogram"}]
    ELSE
    Bind(counts \o degree_lines(G), LAMBDA head :
    IF G.nodes = {}
    THEN [stdout |-> head, exc |-> "NetworkXPointlessConcept",
          ran |-> {"degree_histogram", "is_connected"}]
    ELSE IF node_connected_component(G, CHOOSE v \in G.nodes : TRUE) = G.nodes
    THEN [stdout |-> head \o
             <<Line("Graph is connected.", <<>>),
               Line("Diameter:", <<diameter(G)>>),
               Line("Average shortest path length:",
                    <<average_shortest_path_length(G).num,
                      average_shortest_path_length(G).den>>)>>,
          exc |-> NoExc,
          ran |-> {"degree_histogram", "is_connected", "diameter",
                   "average_shortest_path_length"}]
    ELSE
    Bind(sorted_sizes(connected_components(G)), LAMBDA sizes :
         [stdout |-> head \o
             <<Line("Graph is not connected.", <<>>),
               Line("Number of connected components:", <<Len(sizes)>>)>>
             \o [i \in 1 .. Len(sizes) |-> Line("Component", <<i, sizes[i]>>)],
          exc |-> NoExc,
          ran |-> {"degree_histogram", "is_connected",
                   "number_connected_components", "connected_components"}])))

(***************************************************************************)
(* The state machine: one action per public method.  Each action commits   *)
(* the whole outcome of one call, an exception leaving the attributes as   *)
(* they were when it was raised.                                           *)
(***************************************************************************)
NoCall ==
    [op |-> "__init__", thickness |-> 0, epsilon |-> None, kwargs |-> {},
     idx |-> None, skeleton_3d |-> None, clean |-> TRUE,
     knot_skeleton_kwargs |-> NoKnotSkeletonKwargs,
     G |-> None, stdout |-> <<>>,
     exc |-> NoExc, ret |-> None, ran |-> {}]

Commit(call, r) ==
    /\ k_to_zw_func' = r.self.k_to_zw_func
    /\ zw_to_c_func' = r.self.zw_to_c_func
    /\ kx_min' = r.self.kx_min
    /\ kx_max' = r.self.kx_max
    /\ ky_min' = r.self.ky_min
    /\ ky_max' = r.self.ky_max
    /\ kz_min' = r.self.kz_min
    /\ kz_max' = r.self.kz_max
    /\ pts_per_dim' = r.self.pts_per_dim
    /\ val' = r.self.val
    /\ kx_grid' = r.self.kx_grid
    /\ ky_grid' = r.self.ky_grid
    /\ kz_grid' = r.self.kz_grid
    /\ binarized_val' = r.self.binarized_val
    /\ selected_points' = r.self.selected_points
    /\ skeleton' = r.self.skeleton
    /\ skeleton_points' = r.self.skeleton_points
    /\ graph' = r.self.graph
    /\ last' = [call EXCEPT !.exc = r.exc, !.ret = r.ret, !.ran = r.ran]

\* The constructor's arguments: the two field functions, the axis ranges and
\* the number of points per axis.
FieldFuncs == {<<"planar", "sum">>, <<"planar", "product">>, <<"sheared", "sum">>}

AxisRanges ==
    { [kx_min |-> -6, kx_max |-> 6, ky_min |-> -6, ky_max |-> 6,
       kz_min |-> 0, kz_max |-> 6],
      [kx_min |-> 0, kx_max |-> 4, ky_min |-> -4, ky_max |-> 4,
       kz_min |-> 1, kz_max |-> 1] }

Init ==
    /\ \E f \in FieldFuncs : k_to_zw_func = f[1] /\ zw_to_c_func = f[2]
    /\ \E a \in AxisRanges :
          /\ kx_min = a.kx_min /\ kx_max = a.kx_max
          /\ ky_min = a.ky_min /\ ky_max = a.ky_max
          /\ kz_min = a.kz_min /\ kz_max = a.kz_max
    /\ pts_per_dim \in 1 .. MaxPts
    /\ val = None /\ kx_grid = None /\ ky_grid = None /\ kz_grid = None
    /\ binarized_val = None
    /\ selected_points = None
    /\ skeleton = None
    /\ skeleton_points = None
    /\ graph = None
    /\ last = NoCall

GenerateRegion ==
    \E r \in {generate_region(Self, {})} :
        Commit([NoCall EXCEPT !.op = "generate_region"], r)

\* Each action below takes the set of argument tuples its call draws from.
BinarizeRegion(Args) ==
    \E a \in Args : \E r \in {binarize_region(Self, a[1], a[2], a[3])} :
        Commit([NoCall EXCEPT !.op = "binarize_region", !.thickness = a[1],
                              !.epsilon = a[2], !.kwargs = a[3]], r)

KnotSurfacePoints(Args) ==
    \E a \in Args :
    \E r \in {knot_surface_points(Self, a[1], a[2], a[3], a[4])} :
        Commit([NoCall EXCEPT !.op = "knot_surface_points",
                              !.thickness = a[1], !.epsilon = a[2],
                              !.idx = a[3], !.kwargs = a[4]], r)

KnotSkeleton(Args) ==
    \E a \in Args : \E r \in {knot_skeleton(Self, a[1], a[2], a[3])} :
        Commit([NoCall EXCEPT !.op = "knot_skeleton", !.thickness = a[1],
                              !.epsilon = a[2], !.kwargs = a[3]], r)

KnotSkeletonPoints(Args) ==
    \E a \in Args : \E r \in {knot_skeleton_points(Self, a[1], a[2], a[3])} :
        Commit([NoCall EXCEPT !.op = "knot_skeleton_points",
                              !.thickness = a[1], !.epsilon = a[2],
                              !.kwargs = a[3]], r)

SkeletonGraph(Args) ==
    \E a \in Args : \E r \in {skeleton_graph(Self, a[1], a[2], a[3])} :
        Commit([NoCall EXCEPT !.op = "skeleton_graph",
                              !.skeleton_3d = a[1], !.clean = a[2],
                              !.knot_skeleton_kwargs = a[3]], r)

(***************************************************************************)
(* Spec: the orchestrator under every interleaving of its public methods,  *)
(* each called with a solid-mode or a shell-mode threshold, with or        *)
(* without a forwarded keyword, with or without a caller-made array.       *)
(***************************************************************************)
ThresholdArgs == {<<0, None>>, <<6, Some(2)>>}
StageArgs ==
    {<<t[1], t[2], {}>> : t \in ThresholdArgs} \cup {<<0, None, {"pts_per_dim"}>>}

\* Caller-made arrays of side n: a sheet, a rod along the third axis, a block.
SheetMask(n) == [c \in Cells(n) |-> IF c[1] = c[2] THEN 1 ELSE 0]
RodMask(n) == [c \in Cells(n) |-> IF c[1] = 0 /\ c[2] = 0 THEN 1 ELSE 0]
OnesMask(n) == [c \in Cells(n) |-> 1]

\* Masks handed to knot_surface_points: of the sample's shape, or one larger.
SurfaceArgs ==
    {<<t[1], t[2], None, {}>> : t \in ThresholdArgs}
    \cup {<<0, None, Some(SheetMask(pts_per_dim)), {}>>,
          <<0, None, Some(OnesMask(pts_per_dim + 1)), {}>>,
          <<0, None, None, {"kx_min", "kx_max"}>>}

KnotSkeletonKwargs ==
    { NoKnotSkeletonKwargs,
      [thickness |-> Some(6), epsilon |-> Some(Some(2)), rest |-> {}],
      [thickness |-> None, epsilon |-> None, rest |-> {"pts_per_dim"}] }

GraphArgs ==
    {<<None, clean, kw>> : clean \in BOOLEAN, kw \in KnotSkeletonKwargs}
    \cup {<<Some(RodMask(pts_per_dim)), clean, NoKnotSkeletonKwargs>> :
            clean \in BOOLEAN}
    \cup {<<Some(SheetMask(pts_per_dim)), TRUE,
            [thickness |-> Some(6), epsilon |-> None,
             rest |-> {"pts_per_dim"}]>>}

Next ==
    \/ GenerateRegion
    \/ BinarizeRegion(StageArgs)
    \/ KnotSurfacePoints(SurfaceArgs)
    \/ KnotSkeleton(StageArgs)
    \/ KnotSkeletonPoints(StageArgs)
    \/ SkeletonGraph(GraphArgs)

Spec == Init /\ [][Next]_vars

(***************************************************************************)
(* SpecBinarize and SpecSurface: each thresholding method as a function of *)
(* its arguments, over every thickness and epsilon of the bounded ranges.  *)
(***************************************************************************)
WideThicknesses == -1 .. MaxThickness
WideEpsilons == {None} \cup {Some(e) : e \in -1 .. MaxEpsilon}

NextBinarize == BinarizeRegion(WideThicknesses \X WideEpsilons \X {{}})

SpecBinarize == Init /\ [][NextBinarize]_vars

NextSurface ==
    KnotSurfacePoints(WideThicknesses \X WideEpsilons \X {None} \X {{}})

SpecSurface == Init /\ [][NextSurface]_vars

(***************************************************************************)
(* SpecExtractor: knot_surface_points as a function of a caller-made mask  *)
(* of the sample's shape: every mask of a grid of at most 8 cells; on      *)
(* larger grids every mask of one cell, every mask of one cell together    *)
(* with the first or the last cell, the empty mask, the sheet, the block.  *)
(***************************************************************************)
MaskSet(n) ==
    IF n <= 2 THEN [Cells(n) -> {0, 1}]
    ELSE {[c \in Cells(n) |-> IF c \in {a, b} THEN 1 ELSE 0] :
             a \in Cells(n),
             b \in {<<0, 0, 0>>, <<n - 1, n - 1, n - 1>>}}
         \cup {[c \in Cells(n) |-> IF c = a THEN 1 ELSE 0] : a \in Cells(n)}
         \cup {[c \in Cells(n) |-> 0], SheetMask(n), OnesMask(n)}

NextExtractor ==
    KnotSurfacePoints({<<0, None, Some(B), {}>> : B \in MaskSet(pts_per_dim)})

SpecExtractor == Init /\ [][NextExtractor]_vars

(***************************************************************************)
(* SpecReport: print_graph_properties as a function of its argument, over  *)
(* every graph with nodes among 1 .. MaxNodes.                             *)
(***************************************************************************)
GraphsOn(V) ==
    {[nodes |-> V, edges |-> E] :
        E \in SUBSET ({{a, b} : a \in V, b \in V} \ {{a} : a \in V})}

ReportGraphs == UNION {GraphsOn(V) : V \in SUBSET (1 .. MaxNodes)}

PrintGraphProperties(Graphs) ==
    \E G \in Graphs, histogram_raises \in BOOLEAN :
    \E out \in {print_graph_properties(G, histogram_raises)} :
        Commit([NoCall EXCEPT !.op = "print_graph_properties",
                              !.G = Some(G), !.stdout = out.stdout],
               [self |-> Self, ret |-> None, exc |-> out.exc, ran |-> out.ran])

NextReport == PrintGraphProperties(ReportGraphs)

\* The method is static: one instance stands for all.
InitReport ==
    /\ Init
    /\ k_to_zw_func = "planar" /\ zw_to_c_func = "sum"
    /\ pts_per_dim = 1

SpecReport == InitReport /\ [][NextReport]_vars

(***************************************************************************)
(* Properties.                                                             *)
(***************************************************************************)
StageOps ==
    {"binarize_region", "knot_surface_points", "knot_skeleton",
     "knot_skeleton_points", "skeleton_graph"}

\* The keyword names a recorded stage call forwards towards generate_region.
Forwarded(l) ==
    IF l.op = "skeleton_graph"
    THEN (IF IsNone(l.skeleton_3d) THEN l.knot_skeleton_kwargs.rest ELSE {})
    ELSE l.kwargs

\* A freshly constructed instance: every cached field is None.
Fresh ==
    /\ IsNone(val) /\ IsNone(kx_grid) /\ IsNone(ky_grid) /\ IsNone(kz_grid)
    /\ IsNone(binarized_val) /\ IsNone(selected_points) /\ IsNone(skeleton)
    /\ IsNone(skeleton_points) /\ IsNone(graph)

\* C1 (as claimed): a call of generate_region leaves no downstream cache
\* holding a value derived from the previous Field Sample: after the call
\* each of binarized_val, skeleton, skeleton_points and graph is None or was
\* recomputed by the call.
C1_GenerateInvalidatesDownstream ==
    [][last'.op = "generate_region" =>
         /\ IsNone(binarized_val') \/ "binarize_region" \in last'.ran
         /\ IsNone(skeleton') \/ "skeletonize" \in last'.ran
         /\ IsNone(skeleton_points') \/ "knot_skeleton_points" \in last'.ran
         /\ IsNone(graph') \/ "skeleton2graph" \in last'.ran]_vars

\* C2 (as claimed): cache coherence in every reachable state: a cached
\* skeleton is the thinning of the cached binarized_val, and cached
\* skeleton_points are the points of the cached skeleton.  (The claim's
\* clause on graph is left out of this formula: a graph made from a
\* caller-supplied array is by design not derived from the cached skeleton.)
C2_CacheCoherence ==
    /\ (~IsNone(skeleton) /\ ~IsNone(binarized_val))
          => Get(skeleton) = skeletonize(Get(binarized_val))
    /\ ~IsNone(skeleton_points)
          => /\ ~IsNone(skeleton)
             /\ Get(skeleton_points) = grid_points(Self, np_where(Get(skeleton)))

\* C3 (as claimed): a stage call given regeneration parameters as keyword
\* overrides regenerates the Field Sample and then completes, returning its
\* stage's result.
C3_KwargsRegenerate ==
    (last.op \in StageOps /\ Forwarded(last) # {})
        => /\ last.exc = NoExc
           /\ "generate_region" \in last.ran
           /\ ~IsNone(last.ret)

MagNum(c) == AbsInt(Get(val)[c].num)
MagDen(c) == Get(val)[c].den

SolidMode(epsilon) == IsNone(epsilon) \/ Get(epsilon) <= 0

\* C5: after binarize_region(thickness, epsilon) every cell with magnitude m
\* holds 1 exactly when, in shell mode (epsilon given and > 0),
\* |m - thickness| < epsilon, and in solid mode,
\* m <= max(thickness, 10 / pts_per_dim); the result has the sample's
\* shape, is returned and is stored as binarized_val.
C5_BinarizeFormula ==
    (last.op = "binarize_region" /\ last.exc = NoExc) =>
        LET b == Get(binarized_val)
            t == last.thickness
            e == last.epsilon
            InShell(c) ==
                /\ (t - Get(e)) * MagDen(c) < MagNum(c)
                /\ MagNum(c) < (t + Get(e)) * MagDen(c)
            InSolid(c) ==
                \/ MagNum(c) <= t * MagDen(c)
                \/ MagNum(c) * pts_per_dim <= ClampNumerator * MagDen(c)
        IN  /\ DOMAIN b = DOMAIN Get(val)
            /\ \A c \in DOMAIN b :
                  b[c] = IF (IF SolidMode(e) THEN InSolid(c) ELSE InShell(c))
                         THEN 1 ELSE 0
            /\ last.ret = binarized_val

\* C5 witness: a solid-mode call with thickness below 10 / pts_per_dim has
\* marked a cell whose magnitude exceeds thickness, and left another at 0.
C5_Witness ==
    /\ last.op = "binarize_region" /\ last.exc = NoExc
    /\ SolidMode(last.epsilon)
    /\ last.thickness * pts_per_dim < ClampNumerator
    /\ \E c \in DOMAIN Get(binarized_val) :
          /\ Get(binarized_val)[c] = 1
          /\ MagNum(c) > last.thickness * MagDen(c)
    /\ \E c \in DOMAIN Get(binarized_val) : Get(binarized_val)[c] = 0

\* C6: solid-mode binarization is monotone in thickness: when a solid-mode
\* call with thickness t2 follows a solid-mode call with thickness t1 <= t2
\* on the same Field Sample, every cell marked 1 before is marked 1 after.
C6_SolidMonotone ==
    [][(/\ last.op = "binarize_region" /\ last.exc = NoExc
        /\ last'.op = "binarize_region" /\ last'.exc = NoExc
        /\ SolidMode(last.epsilon) /\ SolidMode(last'.epsilon)
        /\ last.thickness <= last'.thickness
        /\ val' = val)
       => \A c \in DOMAIN Get(binarized_val) :
             Get(binarized_val)[c] = 1 => Get(binarized_val')[c] = 1]_vars

\* C6 witness: a solid-mode call on an already sampled instance (so a call
\* preceded it) with thickness below the floor, marking some cells only.
C6_Witness ==
    /\ last.op = "binarize_region" /\ last.exc = NoExc
    /\ "generate_region" \notin last.ran
    /\ SolidMode(last.epsilon)
    /\ 0 < last.thickness /\ last.thickness * pts_per_dim < ClampNumerator
    /\ \E c \in DOMAIN Get(binarized_val) : Get(binarized_val)[c] = 1
    /\ \E c \in DOMAIN Get(binarized_val) : Get(binarized_val)[c] = 0

\* C7: knot_surface_points called with no idx mask leaves binarized_val,
\* skeleton, skeleton_points and graph as they were.
C7_SurfaceFrame ==
    [][(last'.op = "knot_surface_points" /\ IsNone(last'.idx))
       => /\ binarized_val' = binarized_val
          /\ skeleton' = skeleton
          /\ skeleton_points' = skeleton_points
          /\ graph' = graph]_vars

\* C7 witness: knot_surface_points has returned, with no idx, a selection
\* that differs from the one the cached binarized_val holds.
C7_Witness ==
    /\ last.op = "knot_surface_points" /\ IsNone(last.idx) /\ last.exc = NoExc
    /\ ~IsNone(binarized_val)
    /\ Get(last.ret) # grid_points(Self, np_where(Get(binarized_val)))

\* C8: knot_surface_points(thickness, epsilon) with no idx returns the
\* points of exactly the cells binarize_region(thickness, epsilon) marks 1
\* on the same Field Sample.
C8_SurfaceMatchesBinarize ==
    (last.op = "knot_surface_points" /\ IsNone(last.idx) /\ last.exc = NoExc) =>
        LET b == Get(binarize_region(Self, last.thickness, last.epsilon, {}).ret)
            cells == SelectSeq(CellSeq(pts_per_dim), LAMBDA c : b[c] = 1)
        IN  Get(last.ret) =
                [m \in 1 .. Len(cells) |->
                    <<Get(kx_grid)[cells[m]], Get(ky_grid)[cells[m]],
                      Get(kz_grid)[cells[m]]>>]

\* C8 witness: a solid-mode knot_surface_points call with thickness below
\* the floor has selected some but not all cells.
C8_Witness ==
    /\ last.op = "knot_surface_points" /\ IsNone(last.idx) /\ last.exc = NoExc
    /\ SolidMode(last.epsilon)
    /\ last.thickness * pts_per_dim < ClampNumerator
    /\ 0 < Len(Get(last.ret))
    /\ Len(Get(last.ret)) < pts_per_dim * pts_per_dim * pts_per_dim

\* C9 (as claimed): knot_surface_points given a mask whose shape differs
\* from the Field Sample's raises ValueError and leaves every attribute as
\* it was, also when no Field Sample has been generated yet.
C9_MaskMismatchNoEffect ==
    [][(/\ last'.op = "knot_surface_points"
        /\ ~IsNone(last'.idx)
        /\ Shape(Get(last'.idx)) # <<pts_per_dim, pts_per_dim, pts_per_dim>>)
       => /\ last'.exc = "ValueError"
          /\ UNCHANGED fields]_vars

\* The axis values generate_region samples, and the triple of a cell.
AxisTriple(c) ==
    <<linspace(kx_min, kx_max, pts_per_dim)[c[1]],
      linspace(ky_min, ky_max, pts_per_dim)[c[2]],
      linspace(kz_min, kz_max, pts_per_dim)[c[3]]>>

Rank(c) == (c[1] * pts_per_dim + c[2]) * pts_per_dim + c[3]
TrueCells(B) == {c \in DOMAIN B : B[c] # 0}

\* knot_surface_points(idx=B) returned one triple per true cell of B, in
\* traversal order, the triple of cell (i, j, k) being
\* (kx_axis[i], ky_axis[j], kz_axis[k]).
ExtractorForward ==
    LET B == Get(last.idx)
        pts == Get(last.ret)
        NthTrue(m) ==
            CHOOSE c \in TrueCells(B) :
                Cardinality({d \in TrueCells(B) : Rank(d) < Rank(c)}) = m - 1
    IN  /\ Len(pts) = Cardinality(TrueCells(B))
        /\ \A m \in 1 .. Len(pts) : pts[m] = AxisTriple(NthTrue(m))

\* Mapping the returned triples back to grid indices gives the true cells.
ExtractorRoundTrip ==
    LET B == Get(last.idx)
        pts == Get(last.ret)
    IN  {c \in Cells(pts_per_dim) :
            \E m \in 1 .. Len(pts) : pts[m] = AxisTriple(c)} = TrueCells(B)

ExtractorReturned ==
    last.op = "knot_surface_points" /\ ~IsNone(last.idx) /\ last.exc = NoExc

\* Every axis holds pairwise distinct values.
AxesDistinct ==
    pts_per_dim = 1 \/ (kx_min # kx_max /\ ky_min # ky_max /\ kz_min # kz_max)

\* C10 (as claimed): for any axis ranges and point count,
\* knot_surface_points(idx=B) returns one triple per true cell in traversal
\* order, and mapping the triples back to indices reproduces B's true cells.
C10_RoundTripAnyRanges ==
    ExtractorReturned => (ExtractorForward /\ ExtractorRoundTrip)

\* C10 (amended): the triples are one per true cell in traversal order for
\* any axis ranges; mapping them back to indices reproduces B's true cells
\* when every axis holds pairwise distinct values (min # max, or one point).
C10_RoundTrip ==
    ExtractorReturned =>
        (ExtractorForward /\ (AxesDistinct => ExtractorRoundTrip))

\* C10 witness: a mask with several true cells and a false one has been
\* extracted on a grid of more than one point per axis with distinct values.
C10_Witness ==
    /\ ExtractorReturned
    /\ pts_per_dim > 1 /\ AxesDistinct
    /\ Len(Get(last.ret)) > 1
    /\ \E c \in DOMAIN Get(last.idx) : Get(last.idx)[c] = 0

\* The value v is the i-th of pts_per_dim evenly spaced values that start at
\* lo with step (hi - lo) / (pts_per_dim - 1).
EvenlySpaced(v, lo, hi, i) ==
    v.num * (pts_per_dim - 1)
        = ((pts_per_dim - 1) * lo + i * (hi - lo)) * v.den

\* The axis starts at lo, and ends at hi.
StartsAt(v, lo, i) == i = 0 => v.num = lo * v.den
EndsAt(v, hi, i) == i = pts_per_dim - 1 => v.num = hi * v.den

\* The grids and the value array have shape (n, n, n).
SampleShape ==
    /\ DOMAIN Get(val) = Cells(pts_per_dim)
    /\ DOMAIN Get(kx_grid) = Cells(pts_per_dim)
    /\ DOMAIN Get(ky_grid) = Cells(pts_per_dim)
    /\ DOMAIN Get(kz_grid) = Cells(pts_per_dim)

\* Matrix indexing: the grid of an axis depends on that axis's index only,
\* its values evenly spaced from the axis's min.
SampleIndexing ==
    \A c \in Cells(pts_per_dim) :
        /\ EvenlySpaced(Get(kx_grid)[c], kx_min, kx_max, c[1])
        /\ EvenlySpaced(Get(ky_grid)[c], ky_min, ky_max, c[2])
        /\ EvenlySpaced(Get(kz_grid)[c], kz_min, kz_max, c[3])
        /\ StartsAt(Get(kx_grid)[c], kx_min, c[1])
        /\ StartsAt(Get(ky_grid)[c], ky_min, c[2])
        /\ StartsAt(Get(kz_grid)[c], kz_min, c[3])

\* The last value of each axis is the axis's max.
SampleReachesMax ==
    \A c \in Cells(pts_per_dim) :
        /\ EndsAt(Get(kx_grid)[c], kx_max, c[1])
        /\ EndsAt(Get(ky_grid)[c], ky_max, c[2])
        /\ EndsAt(Get(kz_grid)[c], kz_max, c[3])

\* C11 (as claimed): for any axis ranges and point count n, generate_region
\* produces grids and a value array of shape (n, n, n) with matrix indexing,
\* each axis being n linearly spaced values from its min to its max
\* inclusive.
C11_GridsMinToMax ==
    ~IsNone(val) => (SampleShape /\ SampleIndexing /\ SampleReachesMax)

\* C11 (amended): shape (n, n, n) and matrix indexing for any ranges and n;
\* each axis is n evenly spaced values starting at its min, and its last
\* value is its max when n >= 2 (for n = 1 the single value is the min).
C11_Grids ==
    ~IsNone(val) =>
        /\ SampleShape
        /\ SampleIndexing
        /\ pts_per_dim >= 2 => SampleReachesMax

\* C11 witness: generate_region has sampled a grid of at least three points
\* per axis on which the kx and ky grids differ at a cell off the diagonal.
C11_Witness ==
    /\ "generate_region" \in last.ran
    /\ pts_per_dim >= 3
    /\ Get(kx_grid)[<<0, 1, 2>>] # Get(ky_grid)[<<0, 1, 2>>]
    /\ Get(kz_grid)[<<0, 1, 2>>] # Get(kz_grid)[<<0, 1, 0>>]

\* The graph G has no node of degree 1.
NoLeaf(G) == \A v \in G.nodes : Degree(G, v) # 1

\* The volume a recorded skeleton_graph call converts: the caller's
\* skeleton_3d, or else the skeleton cached when the call returns.
ConvertedVolume(l, sk) ==
    IF IsNone(l.skeleton_3d) THEN Get(sk) ELSE Get(l.skeleton_3d)

StageChain ==
    /\ ~IsNone(skeleton) => ~IsNone(binarized_val)
    /\ ~IsNone(binarized_val) => ~IsNone(val)

\* C13 (as claimed): in every reachable state a later stage's cache is
\* populated only if every earlier stage's cache is: graph implies skeleton,
\* skeleton implies binarized_val, binarized_val implies val.
C13_LinearStageOrder ==
    /\ ~IsNone(graph) => ~IsNone(skeleton)
    /\ StageChain

\* C13 (amended): skeleton implies binarized_val and binarized_val implies
\* val in every reachable state; a call that assigns graph leaves skeleton
\* populated unless it is skeleton_graph given a caller-supplied
\* skeleton_3d; and no populated stage cache is ever emptied again.
C13_StageOrder ==
    /\ []StageChain
    /\ [][/\ (graph' # graph /\ IsNone(last'.skeleton_3d))
               => (~IsNone(graph') /\ ~IsNone(skeleton'))
          /\ ~IsNone(val) => ~IsNone(val')
          /\ ~IsNone(binarized_val) => ~IsNone(binarized_val')
          /\ ~IsNone(skeleton) => ~IsNone(skeleton')
          /\ ~IsNone(graph) => ~IsNone(graph')]_vars

\* C13 witness: skeleton_graph, given no skeleton_3d, has built the graph
\* on an instance with no Field Sample before the call, passing through
\* every stage; all four caches are populated.
C13_Witness ==
    /\ last.op = "skeleton_graph" /\ last.exc = NoExc
    /\ IsNone(last.skeleton_3d)
    /\ {"generate_region", "binarize_region", "skeletonize"} \subseteq last.ran
    /\ ~IsNone(val) /\ ~IsNone(binarized_val) /\ ~IsNone(skeleton)
    /\ ~IsNone(graph)

\* The binarizer's rule for the cell c of the cached Field Sample at
\* (thickness t, epsilon e), as inequalities between integers.
MarkedAt(c, t, e) ==
    IF SolidMode(e)
    THEN \/ MagNum(c) <= t * MagDen(c)
         \/ MagNum(c) * pts_per_dim <= ClampNumerator * MagDen(c)
    ELSE /\ (t - Get(e)) * MagDen(c) < MagNum(c)
         /\ MagNum(c) < (t + Get(e)) * MagDen(c)

\* C14: when knot_skeleton(thickness, epsilon) returns, the binarizer has
\* run in the call; binarized_val is the binarization of the cached Field
\* Sample at (thickness, epsilon); skeleton is the thinning of that
\* binarized_val, of the same shape, its true cells among binarized_val's;
\* and the returned value is the cached skeleton.
C14_SkeletonRebinarizes ==
    (last.op = "knot_skeleton" /\ last.exc = NoExc) =>
        /\ "binarize_region" \in last.ran
        /\ DOMAIN Get(binarized_val) = DOMAIN Get(val)
        /\ \A c \in DOMAIN Get(val) :
              Get(binarized_val)[c] =
                  IF MarkedAt(c, last.thickness, last.epsilon) THEN 1 ELSE 0
        /\ Get(skeleton) = skeletonize(Get(binarized_val))
        /\ DOMAIN Get(skeleton) = DOMAIN Get(binarized_val)
        /\ \A c \in DOMAIN Get(skeleton) :
              Get(skeleton)[c] # 0 => Get(binarized_val)[c] # 0
        /\ last.ret = skeleton

\* C14 witness: knot_skeleton has returned on an instance whose Field
\* Sample was cached before the call; the binarizer left some cells
\* unmarked, and the thinning kept some marked cells and removed others.
C14_Witness ==
    /\ last.op = "knot_skeleton" /\ last.exc = NoExc
    /\ "generate_region" \notin last.ran
    /\ \E c \in DOMAIN Get(binarized_val) : Get(binarized_val)[c] = 0
    /\ \E c \in DOMAIN Get(skeleton) : Get(skeleton)[c] # 0
    /\ \E c \in DOMAIN Get(skeleton) :
          Get(skeleton)[c] = 0 /\ Get(binarized_val)[c] # 0

\* C15: the Field Sample is computed at most once unless regeneration is
\* requested.  A stage call made while val is populated, forwarding no
\* keyword override, does not run generate_region and leaves val and the
\* three grids as they were; and binarize_region called again with the
\* arguments of the call that just returned yields the same volume.
C15_NoRegeneration ==
    /\ [][(~IsNone(val) /\ last'.op \in StageOps /\ Forwarded(last') = {})
           => ("generate_region" \notin last'.ran
               /\ val' = val
               /\ kx_grid' = kx_grid
               /\ ky_grid' = ky_grid
               /\ kz_grid' = kz_grid)]_vars
    /\ []((last.op = "binarize_region" /\ last.exc = NoExc
               /\ last.kwargs = {})
           => (binarize_region(Self, last.thickness, last.epsilon, {}).ret
                  = binarized_val))

\* C15 witness: skeleton_graph, given no array and no keyword, has run the
\* binarizer and the thinning on an already sampled instance without
\* generating the region.
C15_Witness ==
    /\ last.op = "skeleton_graph" /\ last.exc = NoExc
    /\ IsNone(last.skeleton_3d)
    /\ last.knot_skeleton_kwargs = NoKnotSkeletonKwargs
    /\ "binarize_region" \in last.ran
    /\ "generate_region" \notin last.ran
    /\ ~IsNone(val)

\* The graph skeleton_graph makes of the volume V.
GraphOf(V, clean) ==
    IF clean THEN remove_leaf_nodes(skeleton2graph(V)) ELSE skeleton2graph(V)

\* The routines of the sampling, binarization and thinning stages.
UpstreamRoutines ==
    {"generate_region", "binarize_region", "knot_skeleton", "skeletonize"}

\* C16: skeleton_graph given a caller-supplied skeleton_3d returns, whatever
\* keywords it is given, without running sampling, binarization or
\* thinning; it leaves val, the grids, binarized_val, skeleton and
\* skeleton_points (and selected_points) as they were and assigns only
\* graph, the graph of the supplied volume.  skeleton_graph given no
\* skeleton_3d and no keyword while a skeleton is cached makes the graph
\* of the cached skeleton, which it does not recompute.
C16_SuppliedSkeletonFrame ==
    [][(last'.op = "skeleton_graph") =>
         /\ ~IsNone(last'.skeleton_3d) =>
               /\ last'.exc = NoExc
               /\ last'.ran \cap UpstreamRoutines = {}
               /\ val' = val /\ kx_grid' = kx_grid /\ ky_grid' = ky_grid
               /\ kz_grid' = kz_grid /\ binarized_val' = binarized_val
               /\ skeleton' = skeleton /\ skeleton_points' = skeleton_points
               /\ selected_points' = selected_points
               /\ graph' = Some(GraphOf(Get(last'.skeleton_3d), last'.clean))
               /\ last'.ret = graph'
         /\ (/\ IsNone(last'.skeleton_3d)
             /\ last'.knot_skeleton_kwargs = NoKnotSkeletonKwargs
             /\ ~IsNone(skeleton)) =>
               /\ last'.exc = NoExc
               /\ last'.ran \cap UpstreamRoutines = {}
               /\ skeleton' = skeleton /\ binarized_val' = binarized_val
               /\ val' = val
               /\ graph' = Some(GraphOf(Get(skeleton), last'.clean))]_vars

\* C16 witness: skeleton_graph has returned, given keywords and a volume
\* that differs from the cached skeleton, the graph of that volume, which
\* is not the graph of the cached skeleton.
C16_Witness ==
    /\ last.op = "skeleton_graph" /\ last.exc = NoExc
    /\ ~IsNone(last.skeleton_3d)
    /\ last.knot_skeleton_kwargs.rest # {}
    /\ ~IsNone(skeleton)
    /\ Get(skeleton) # Get(last.skeleton_3d)
    /\ Get(graph) # GraphOf(Get(skeleton), last.clean)

\* Connectivity stated by cuts: S is a connected component of G when no edge
\* leaves S and every split of S into two parts is crossed by an edge.
Crossed(G, S, T) == \E a \in S, b \in T : {a, b} \in G.edges

IsComponent(G, S) ==
    /\ S # {}
    /\ ~Crossed(G, S, G.nodes \ S)
    /\ \A T \in (SUBSET S) \ {{}, S} : Crossed(G, T, S \ T)

ComponentsOf(G) == {S \in SUBSET G.nodes : IsComponent(G, S)}

PathMetricTexts == {"Diameter:", "Average shortest path length:"}

\* The lines of the report with the given text.
ReportLines(text) == SelectSeq(last.stdout, LAMBDA l : l.text = text)

\* C17: the report checks connectivity before any path metric.  A diameter
\* or average-path line is printed only for a graph that is one connected
\* component, after the line that states it is connected, and such a graph
\* gets both; a graph of several components gets no path metric, the
\* number of its components and one line per component, the sizes in
\* non-increasing order; a graph with no node makes the report raise an
\* error, with no path metric printed.
C17_ConnectivityFirst ==
    (last.op = "print_graph_properties") =>
        LET G == Get(last.G)
            out == last.stdout
            comps == ComponentsOf(G)
            sizes == ReportLines("Component")
        IN  /\ \A i \in 1 .. Len(out) :
                  out[i].text \in PathMetricTexts =>
                      /\ Cardinality(comps) = 1
                      /\ \E j \in 1 .. i - 1 :
                            out[j].text = "Graph is connected."
            /\ Cardinality(comps) = 1 =>
                  /\ last.exc = NoExc
                  /\ Len(ReportLines("Diameter:")) = 1
                  /\ Len(ReportLines("Average shortest path length:")) = 1
            /\ Cardinality(comps) > 1 =>
                  /\ last.exc = NoExc
                  /\ \E l \in {ReportLines("Number of connected components:")} :
                        Len(l) = 1 /\ l[1].numbers = <<Cardinality(comps)>>
                  /\ Len(sizes) = Cardinality(comps)
                  /\ \A i \in 1 .. Len(sizes) : sizes[i].numbers[1] = i
                  /\ \A i \in 1 .. Len(sizes) - 1 :
                        sizes[i].numbers[2] >= sizes[i + 1].numbers[2]
                  /\ \A k \in 1 .. Cardinality(G.nodes) :
                        Cardinality({i \in 1 .. Len(sizes) :
                                        sizes[i].numbers[2] = k})
                          = Cardinality({S \in comps : Cardinality(S) = k})
            /\ G.nodes = {} =>
                  /\ last.exc # NoExc
                  /\ \A i \in 1 .. Len(out) : out[i].text \notin PathMetricTexts

\* C17 witness: the report of a graph of at least three components of
\* different sizes has been printed.
C17_Witness ==
    /\ last.op = "print_graph_properties" /\ last.exc = NoExc
    /\ Len(ReportLines("Component")) >= 3
    /\ ReportLines("Component")[1].numbers[2] > ReportLines("Component")[2].numbers[2]
    /\ Get(last.G).edges # {}

\* C18: selected_points is never populated: it is None in every reachable
\* state, also after knot_surface_points called with no idx mask.
C18_SelectedPointsNeverSet == IsNone(selected_points)

\* C18 witness: knot_surface_points, called with no idx, has returned a
\* selection that is not empty, and selected_points is None.
C18_Witness ==
    /\ last.op = "knot_surface_points" /\ last.exc = NoExc
    /\ IsNone(last.idx)
    /\ Len(Get(last.ret)) > 0
    /\ IsNone(selected_points)

\* C19: a stage call that raises while forwarding its keywords to
\* generate_region (a TypeError) leaves val, the grids, binarized_val,
\* skeleton, skeleton_points, graph, the axis bounds and pts_per_dim (and
\* every other attribute) as they were before the call.
C19_FailedKwargsNoEffect ==
    [][(last'.op \in StageOps /\ last'.exc = "TypeError")
       => (/\ val' = val /\ kx_grid' = kx_grid /\ ky_grid' = ky_grid
           /\ kz_grid' = kz_grid /\ binarized_val' = binarized_val
           /\ skeleton' = skeleton /\ skeleton_points' = skeleton_points
           /\ graph' = graph
           /\ kx_min' = kx_min /\ kx_max' = kx_max
           /\ ky_min' = ky_min /\ ky_max' = ky_max
           /\ kz_min' = kz_min /\ kz_max' = kz_max
           /\ pts_per_dim' = pts_per_dim
           /\ UNCHANGED fields)]_vars

\* C19 witness: knot_skeleton_points, given a keyword, has raised on an
\* instance whose caches were all populated but selected_points.
C19_Witness ==
    /\ last.op = "knot_skeleton_points" /\ last.exc = "TypeError"
    /\ last.kwargs # {}
    /\ ~IsNone(val) /\ ~IsNone(binarized_val) /\ ~IsNone(skeleton)
    /\ ~IsNone(skeleton_points) /\ ~IsNone(graph)

====
